---- MODULE Spec2Model ----
(***************************************************************************)
(* Model of plugins/nanobanana/main.py: the retry executor                 *)
(* (retry_with_backoff), the error classifier, the backoff policy, the     *)
(* prompt sanitizer and the batch orchestrator (generate_image).           *)
(*                                                                         *)
(* Strings the code inspects (prompts, error messages) are sequences of    *)
(* one-character strings, so that lower(), substring tests, strip() and    *)
(* shlex.quote() are computed as the code computes them.                   *)
(***************************************************************************)
EXTENDS Integers, Sequences, FiniteSets, TLC

VARIABLES
    \* the call generate_image(prompts, output_path, style_path, edit_path,
    \* ref_paths, ..., max_retries) and the process environment
    api_key, prompts, max_retries, style_path, ref_paths, edit_path,
    aspect_ratio,
    \* TRUE when main() makes the call (the command line), FALSE when
    \* generate_image is called directly
    via_main,
    \* position in generate_image and its locals
    pc, i, j, results, total_retries, safe_prompt, out_path, outcome,
    exit_code,
    \* locals of retry_with_backoff.wrapper
    budget, attempt, retries_used, last_error, delay, w_result,
    \* observation of the effects: invocations of the wrapped operation and
    \* waits of the current item, files written, shared files read, prompts
    \* sanitized, the loop index that appended each result
    calls, oplog, sleeps, files, reads, sanitized, origin,
    total_calls, total_sleeps,
    \* the messages raised so far for the current item, and the aspect ratios
    \* carried by the remote requests made
    raised, sent

callVars == <<api_key, prompts, max_retries, style_path, ref_paths, edit_path,
              aspect_ratio, via_main>>
batchVars == <<pc, i, j, results, total_retries, safe_prompt, out_path,
               outcome, exit_code>>
wrapVars == <<budget, attempt, retries_used, last_error, delay, w_result>>
obsVars == <<calls, oplog, sleeps, files, reads, sanitized, origin,
             total_calls, total_sleeps, raised, sent>>
vars == <<callVars, batchVars, wrapVars, obsVars>>

----------------------------------------------------------------------------
(* Bounds of the model *)

MaxPrompts == 2
MaxBudget == 4
MaxBatch == 10
MaxAttempt == 60

----------------------------------------------------------------------------
(* Program constants *)

DEFAULT_MAX_RETRIES == 3

\* 2.0 ** 1024 is the first power of two above the largest float
FloatMaxExp == 1024

ASPECT_RATIOS == <<"1:1", "3:4", "4:3", "4:5", "5:4", "9:16", "16:9", "21:9">>

ErrorCode ==
    [SUCCESS |-> "SUCCESS", API_KEY_MISSING |-> "API_KEY_MISSING",
     FILE_NOT_FOUND |-> "FILE_NOT_FOUND", INVALID_INPUT |-> "INVALID_INPUT",
     RATE_LIMITED |-> "RATE_LIMITED", NETWORK_ERROR |-> "NETWORK_ERROR",
     API_ERROR |-> "API_ERROR", CONTENT_POLICY |-> "CONTENT_POLICY",
     TIMEOUT |-> "TIMEOUT", PARTIAL_FAILURE |-> "PARTIAL_FAILURE"]

RETRYABLE_ERRORS ==
    << <<"r","a","t","e"," ","l","i","m","i","t">>,
       <<"4","2","9">>,
       <<"5","0","3">>,
       <<"5","0","2">>,
       <<"c","o","n","n","e","c","t","i","o","n">>,
       <<"t","i","m","e","o","u","t">>,
       <<"t","e","m","p","o","r","a","r","i","l","y"," ",
         "u","n","a","v","a","i","l","a","b","l","e">> >>

\* the backquote character is written "backquote"
SHELL_DANGEROUS_CHARS ==
    {";", "&", "|", "backquote", "$", "(", ")", "{", "}", "[", "]", "<", ">",
     "\\", "!"}

----------------------------------------------------------------------------
(* String helpers: str.lower, the substring test, str.strip *)

UpperLetters ==
    <<"A","B","C","D","E","F","G","H","I","J","K","L","M",
      "N","O","P","Q","R","S","T","U","V","W","X","Y","Z">>
LowerLetters ==
    <<"a","b","c","d","e","f","g","h","i","j","k","l","m",
      "n","o","p","q","r","s","t","u","v","w","x","y","z">>

LowerChar(c) ==
    IF \E k \in 1..26 : UpperLetters[k] = c
    THEN LowerLetters[CHOOSE k \in 1..26 : UpperLetters[k] = c]
    ELSE c

Lower(s) == [k \in 1..Len(s) |-> LowerChar(s[k])]

Contains(s, p) ==
    \E k \in 0..(Len(s) - Len(p)) : SubSeq(s, k + 1, k + Len(p)) = p

Whitespace == {" ", "\t", "\n", "\r"}

IsBlank(s) == \A k \in 1..Len(s) : s[k] \in Whitespace

----------------------------------------------------------------------------
(* Input validation *)

\* variant: only the empty string is rejected (the strip() test is missing)
SanitizeRaisesEmptyOnly(prompt) == prompt = <<>>

\* sanitize_prompt raises ValueError("Prompt cannot be empty")
SanitizeRaises(prompt) == prompt = <<>> \/ IsBlank(prompt)

RECURSIVE QuoteReplace(_)
\* s.replace("'", "'\"'\"'") of shlex.quote
QuoteReplace(s) ==
    IF s = <<>> THEN <<>>
    ELSE (IF Head(s) = "'" THEN <<"'", "\"", "'", "\"", "'">> ELSE <<Head(s)>>)
         \o QuoteReplace(Tail(s))

\* shlex.quote on a string that holds a character outside [\w@%+=:,./-]
ShlexQuote(s) == <<"'">> \o QuoteReplace(s) \o <<"'">>

\* the value sanitize_prompt returns when it does not raise
sanitize_prompt(prompt) ==
    IF \E k \in 1..Len(prompt) : prompt[k] \in SHELL_DANGEROUS_CHARS
    THEN ShlexQuote(prompt)
    ELSE prompt

----------------------------------------------------------------------------
(* Retry logic with exponential backoff *)

is_retryable_error(error_str) ==
    LET error_lower == Lower(error_str)
    IN  \E k \in 1..Len(RETRYABLE_ERRORS) :
            Contains(error_lower, RETRYABLE_ERRORS[k])

\* base_delay * (2 ** attempt) converts the integer 2 ** attempt to a float:
\* from 2 ** 1024 on the conversion raises OverflowError
BackoffRaises(a) == a >= FloatMaxExp

\* variant: the attempt is counted from 1
calculate_backoff_from_one(a) ==
    LET d == 1 * (2 ^ (IF a + 1 < 30 THEN a + 1 ELSE 30))
    IN  IF d < 60 THEN d ELSE 60

\* the value calculate_backoff returns when it does not raise; base_delay =
\* 1.0, max_delay = 60.0, every value is a whole number. Powers above 2^30
\* are replaced by 2^30, which is above max_delay as they are.
calculate_backoff(a) ==
    LET d == 1 * (2 ^ (IF a < 30 THEN a ELSE 30))
    IN  IF d < 60 THEN d ELSE 60

\* the test attempt < max_retries inside the loop over range(max_retries + 1)
RetryScheduled(a, n) == a < n

\* variant: the message is searched without lower()
ExhaustedCodeCaseSensitive(err) ==
    IF Contains(err, <<"r","a","t","e">>)
    THEN ErrorCode.RATE_LIMITED
    ELSE ErrorCode.NETWORK_ERROR

\* the error_code of the outcome returned after the loop
ExhaustedCode(err) ==
    IF Contains(Lower(err), <<"r","a","t","e">>)
    THEN ErrorCode.RATE_LIMITED
    ELSE ErrorCode.NETWORK_ERROR

----------------------------------------------------------------------------
(* Number formatting and output paths *)

DigitChars == <<"0","1","2","3","4","5","6","7","8","9">>

RECURSIVE Digits(_)
\* str(k) for k >= 0
Digits(k) ==
    IF k < 10 THEN <<DigitChars[k + 1]>>
    ELSE Digits(k \div 10) \o <<DigitChars[(k % 10) + 1]>>

\* the format {k:03d}
Pad3(k) ==
    LET d == Digits(k)
    IN  IF Len(d) >= 3 THEN d
        ELSE [x \in 1..(3 - Len(d)) |-> "0"] \o d

\* output_base = Path(output_path): stem and suffix of the given path
OutputStem == "out"
OutputSuffix == ".png"

\* variant: every item of the batch is given the path as it was passed
OutPathUnnumbered(idx, n) == <<OutputStem, OutputSuffix>>

\* variant: the sequence number is the zero-based loop index
OutPathZeroBased(idx, n) ==
    IF n > 1
    THEN <<OutputStem, "_">> \o Pad3(idx) \o <<OutputSuffix>>
    ELSE <<OutputStem, OutputSuffix>>

\* the output filename of the item at loop index idx in a batch of n prompts
OutPath(idx, n) ==
    IF n > 1
    THEN <<OutputStem, "_">> \o Pad3(idx + 1) \o <<OutputSuffix>>
    ELSE <<OutputStem, OutputSuffix>>

----------------------------------------------------------------------------
(* Inputs of the model *)

None == "None"
NoError == <<>>
NoResult == [none |-> TRUE]
NoPath == <<>>

\* prompts: empty, all whitespace, plain, and one with a shell metacharacter
PromptValues == { <<>>, <<" ">>, <<"a">>, <<"a", ";">> }

\* messages of the exceptions the remote call raises
Msg429 == <<"4","2","9">>
MsgRateLimit == <<"R","a","t","e"," ","l","i","m","i","t">>
MsgBad == <<"b","a","d">>
ErrorMessages == {Msg429, MsgRateLimit, MsgBad}

RECURSIVE SeqsUpTo(_, _)
SeqsUpTo(S, n) ==
    IF n = 0 THEN { <<>> }
    ELSE LET shorter == SeqsUpTo(S, n - 1)
         IN  shorter \cup { Append(q, x) : q \in { t \in shorter : Len(t) = n - 1 }, x \in S }

StylePaths == {None, "style.md"}
EditPaths == {None, "in.png"}
RefPathLists == { <<>>, <<"ref.png">> }
ArgBudgets == {0, DEFAULT_MAX_RETRIES}
\* the default aspect ratio and one outside ASPECT_RATIOS
AspectInputs == {"1:1", "2:1"}

----------------------------------------------------------------------------
(* Initial states *)

WrapperIdle ==
    /\ budget = 0
    /\ attempt = 0
    /\ retries_used = 0
    /\ last_error = NoError
    /\ delay = 0
    /\ w_result = NoResult

NothingObserved ==
    /\ calls = 0
    /\ oplog = <<>>
    /\ sleeps = <<>>
    /\ files = {}
    /\ reads = <<>>
    /\ sanitized = 0
    /\ origin = <<>>
    /\ total_calls = 0
    /\ total_sleeps = 0
    /\ raised = {}
    /\ sent = {}

\* the shared input files are varied for batches of at most one prompt; they
\* are loaded before the loop and not touched by it
SharedInputsBounded ==
    Len(prompts) > 1 =>
        (style_path = None /\ ref_paths = <<>> /\ edit_path = None)

\* the aspect ratio is varied for batches of at most one prompt; the loop
\* passes it on unchanged
AspectBounded == Len(prompts) > 1 => aspect_ratio = "1:1"

\* main() has been started with its command line, or generate_image has
\* just been called directly
Init ==
    /\ api_key \in BOOLEAN
    /\ prompts \in SeqsUpTo(PromptValues, MaxPrompts)
    /\ max_retries \in ArgBudgets
    /\ style_path \in StylePaths
    /\ ref_paths \in RefPathLists
    /\ edit_path \in EditPaths
    /\ SharedInputsBounded
    /\ aspect_ratio \in AspectInputs
    /\ AspectBounded
    /\ via_main \in BOOLEAN
    /\ pc = IF via_main THEN "main" ELSE "start"
    /\ i = 0
    /\ j = 0
    /\ results = <<>>
    /\ total_retries = 0
    /\ safe_prompt = <<>>
    /\ out_path = NoPath
    /\ outcome = NoResult
    /\ exit_code = -1
    /\ WrapperIdle
    /\ NothingObserved

----------------------------------------------------------------------------
(* retry_with_backoff.wrapper around generate_single_image *)

\* the wrapper is entered: last_error = None, retries_used = 0, attempt = 0
EnterWrapper(n) ==
    /\ budget' = n
    /\ attempt' = 0
    /\ retries_used' = 0
    /\ last_error' = NoError
    /\ delay' = 0
    /\ w_result' = NoResult
    /\ calls' = 0
    /\ oplog' = <<>>
    /\ sleeps' = <<>>
    /\ raised' = {}

\* one invocation of the wrapped operation, logged by how it ended: "image",
\* "noimage", "retryable" or "nonretryable"
Invoked(kind, msgs) ==
    /\ calls' = calls + 1
    /\ total_calls' = total_calls + 1
    /\ oplog' = Append(oplog, kind)
    /\ raised' = raised \cup msgs
    /\ sent' = sent \cup {aspect_ratio}

\* variant: the result is annotated with the number of attempts
AnnotatedAttempts(result, r) ==
    [k \in DOMAIN result \cup {"retries_used"} |->
        IF k = "retries_used" THEN r + 1 ELSE result[k]]

\* the result the wrapper passes through: result['retries_used'] = retries_used
Annotated(result, r) ==
    [k \in DOMAIN result \cup {"retries_used"} |->
        IF k = "retries_used" THEN r ELSE result[k]]

\* the response carries an image: it is written to out_path and the
\* success result is returned through the wrapper
FuncSucceeds ==
    /\ pc = "attempting"
    /\ Invoked("image", {})
    /\ files' = files \cup {out_path}
    /\ w_result' = Annotated([prompt |-> safe_prompt, output |-> out_path,
                              success |-> TRUE,
                              error_code |-> ErrorCode.SUCCESS], retries_used)
    /\ pc' = "w_returned"
    /\ UNCHANGED <<callVars, i, j, results, total_retries, safe_prompt,
                   out_path, outcome, exit_code, budget, attempt,
                   retries_used, last_error, delay, sleeps, reads, sanitized,
                   origin, total_sleeps>>

\* variant: a response without an image is treated as a retryable failure
FuncNoImageRetried ==
    /\ pc = "attempting"
    /\ RetryScheduled(attempt, budget)
    /\ Invoked("noimage", {})
    /\ delay' = calculate_backoff(attempt)
    /\ pc' = "retry-scheduled"
    /\ UNCHANGED <<callVars, i, j, results, total_retries, safe_prompt,
                   out_path, outcome, exit_code, budget, attempt,
                   retries_used, last_error, w_result, sleeps, files, reads,
                   sanitized, origin, total_sleeps>>

\* the response carries no image: the failure result is returned, not raised
FuncNoImage ==
    /\ pc = "attempting"
    /\ Invoked("noimage", {})
    /\ w_result' = Annotated([prompt |-> safe_prompt,
                              error |-> <<"No image in response">>,
                              success |-> FALSE,
                              error_code |-> ErrorCode.API_ERROR], retries_used)
    /\ pc' = "w_returned"
    /\ UNCHANGED <<callVars, i, j, results, total_retries, safe_prompt,
                   out_path, outcome, exit_code, budget, attempt,
                   retries_used, last_error, delay, sleeps, files, reads,
                   sanitized, origin, total_sleeps>>

\* variant: a non-retryable error does not return but is retried
RaiseNonRetryableRetried ==
    /\ pc = "attempting"
    /\ RetryScheduled(attempt, budget)
    /\ \E msg \in ErrorMessages :
        /\ ~is_retryable_error(msg)
        /\ Invoked("nonretryable", {msg})
        /\ last_error' = msg
    /\ delay' = calculate_backoff(attempt)
    /\ pc' = "retry-scheduled"
    /\ UNCHANGED <<callVars, i, j, results, total_retries, safe_prompt,
                   out_path, outcome, exit_code, budget, attempt,
                   retries_used, w_result, sleeps, files, reads, sanitized,
                   origin, total_sleeps>>

\* the call raises and the message is not retryable
RaiseNonRetryable ==
    /\ pc = "attempting"
    /\ \E msg \in ErrorMessages :
        /\ ~is_retryable_error(msg)
        /\ Invoked("nonretryable", {msg})
        /\ last_error' = msg
        /\ w_result' = [success |-> FALSE,
                        error_code |-> ErrorCode.API_ERROR,
                        error |-> msg,
                        retries_used |-> retries_used]
    /\ pc' = "w_returned"
    /\ UNCHANGED <<callVars, i, j, results, total_retries, safe_prompt,
                   out_path, outcome, exit_code, budget, attempt,
                   retries_used, delay, sleeps, files, reads, sanitized,
                   origin, total_sleeps>>

\* the call raises a retryable error and attempt < max_retries: the delay is
\* computed and time.sleep(delay) begins
RaiseRetryable ==
    /\ pc = "attempting"
    /\ RetryScheduled(attempt, budget)
    /\ ~BackoffRaises(attempt)
    /\ \E msg \in ErrorMessages :
        /\ is_retryable_error(msg)
        /\ Invoked("retryable", {msg})
        /\ last_error' = msg
    /\ delay' = calculate_backoff(attempt)
    /\ pc' = "retry-scheduled"
    /\ UNCHANGED <<callVars, i, j, results, total_retries, safe_prompt,
                   out_path, outcome, exit_code, budget, attempt,
                   retries_used, w_result, sleeps, files, reads, sanitized,
                   origin, total_sleeps>>

\* the call raises a retryable error, attempt < max_retries, and
\* calculate_backoff(attempt) raises OverflowError inside the except block:
\* the exception leaves the wrapper. This needs attempt >= 1024, which
\* generate_image (budget DEFAULT_MAX_RETRIES) never reaches.
RaiseBackoffOverflow ==
    /\ pc = "attempting"
    /\ RetryScheduled(attempt, budget)
    /\ BackoffRaises(attempt)
    /\ \E msg \in ErrorMessages :
        /\ is_retryable_error(msg)
        /\ Invoked("retryable", {msg})
        /\ last_error' = msg
    /\ pc' = "w_raised"
    /\ UNCHANGED <<callVars, i, j, results, total_retries, safe_prompt,
                   out_path, outcome, exit_code, budget, attempt,
                   retries_used, delay, w_result, sleeps, files, reads,
                   sanitized, origin, total_sleeps>>

\* the call raises a retryable error on the last iteration of the loop: the
\* loop ends and the exhausted outcome is returned
RaiseExhausted ==
    /\ pc = "attempting"
    /\ ~RetryScheduled(attempt, budget)
    /\ \E msg \in ErrorMessages :
        /\ is_retryable_error(msg)
        /\ Invoked("retryable", {msg})
        /\ last_error' = msg
        /\ w_result' = [success |-> FALSE,
                        error_code |-> ExhaustedCode(msg),
                        error |-> <<"Failed after ">> \o Digits(budget)
                                  \o <<" retries: ">> \o msg,
                        retries_used |-> retries_used]
    /\ pc' = "w_returned"
    /\ UNCHANGED <<callVars, i, j, results, total_retries, safe_prompt,
                   out_path, outcome, exit_code, budget, attempt,
                   retries_used, delay, sleeps, files, reads, sanitized,
                   origin, total_sleeps>>

\* time.sleep(delay) returns; retries_used += 1; next iteration of the loop
BackoffElapsed ==
    /\ pc = "retry-scheduled"
    /\ sleeps' = Append(sleeps, delay)
    /\ total_sleeps' = total_sleeps + 1
    /\ retries_used' = retries_used + 1
    /\ attempt' = attempt + 1
    /\ pc' = "attempting"
    /\ UNCHANGED <<callVars, i, j, results, total_retries, safe_prompt,
                   out_path, outcome, exit_code, budget, last_error, delay,
                   w_result, calls, oplog, raised, sent, files, reads, sanitized, origin,
                   total_calls>>

WrapperNext ==
    \/ FuncSucceeds
    \/ FuncNoImage
    \/ RaiseNonRetryable
    \/ RaiseRetryable
    \/ RaiseExhausted
    \/ BackoffElapsed

----------------------------------------------------------------------------
(* generate_image *)

\* variant: the missing-credential outcome reports no failed item
MissingCredentialOutcomeNoFailed(ps) ==
    [success |-> FALSE,
     error_code |-> ErrorCode.API_KEY_MISSING,
     error |-> <<"GEMINI_API_KEY not set">>,
     results |-> <<>>,
     total |-> Len(ps),
     succeeded |-> 0,
     failed |-> 0]

\* the BatchOutcome returned when GEMINI_API_KEY is not set
MissingCredentialOutcome(ps) ==
    [success |-> FALSE,
     error_code |-> ErrorCode.API_KEY_MISSING,
     error |-> <<"GEMINI_API_KEY not set">>,
     results |-> <<>>,
     total |-> Len(ps),
     succeeded |-> 0,
     failed |-> Len(ps)]

\* sum(1 for r in results if r["success"])
Succeeded(rs) == Cardinality({k \in 1..Len(rs) : rs[k].success})

\* variant: items rejected by the sanitizer are not counted as failed
BatchOutcomeSkipsRejected(ps, rs, retries) ==
    LET succeeded == Succeeded(rs)
        failed == Cardinality({k \in 1..Len(rs) :
                      ~rs[k].success /\ "retries_used" \in DOMAIN rs[k]})
    IN  [success |-> failed = 0,
         error_code |-> IF failed = 0 THEN ErrorCode.SUCCESS
                        ELSE ErrorCode.PARTIAL_FAILURE,
         results |-> rs,
         total |-> Len(ps),
         succeeded |-> succeeded,
         failed |-> failed,
         retries_used |-> retries]

\* variant: a batch in which no item succeeded gets the kind API_ERROR
BatchOutcomeAllFailedKind(ps, rs, retries) ==
    LET succeeded == Succeeded(rs)
        failed == Len(rs) - succeeded
    IN  [success |-> failed = 0,
         error_code |-> IF failed = 0 THEN ErrorCode.SUCCESS
                        ELSE IF succeeded = 0 THEN ErrorCode.API_ERROR
                        ELSE ErrorCode.PARTIAL_FAILURE,
         results |-> rs,
         total |-> Len(ps),
         succeeded |-> succeeded,
         failed |-> failed,
         retries_used |-> retries]

\* the BatchOutcome returned after the loop
BatchOutcome(ps, rs, retries) ==
    LET succeeded == Succeeded(rs)
        failed == Len(rs) - succeeded
    IN  [success |-> failed = 0,
         error_code |-> IF failed = 0 THEN ErrorCode.SUCCESS
                        ELSE ErrorCode.PARTIAL_FAILURE,
         results |-> rs,
         total |-> Len(ps),
         succeeded |-> succeeded,
         failed |-> failed,
         retries_used |-> retries]

\* the ItemOutcome recorded when sanitize_prompt raises ValueError
InvalidInputResult(prompt) ==
    [prompt |-> prompt,
     error |-> <<"Prompt cannot be empty">>,
     success |-> FALSE,
     error_code |-> ErrorCode.INVALID_INPUT]

\* the max_retries the decorated generate_with_retry runs with:
\* @retry_with_backoff is applied without a max_retries argument
WrapperBudget(n) == DEFAULT_MAX_RETRIES

\* os.environ.get("GEMINI_API_KEY") is missing: return at once
CredentialMissing ==
    /\ pc = "start"
    /\ ~api_key
    /\ outcome' = MissingCredentialOutcome(prompts)
    /\ pc' = "returned"
    /\ UNCHANGED <<callVars, i, j, results, total_retries, safe_prompt,
                   out_path, exit_code, wrapVars, obsVars>>

\* the credential is set: the client is built
CredentialPresent ==
    /\ pc = "start"
    /\ api_key
    /\ pc' = "load_style"
    /\ UNCHANGED <<callVars, i, j, results, total_retries, safe_prompt,
                   out_path, outcome, exit_code, wrapVars, obsVars>>

\* load_style / load_image on a path that does not exist: sys.exit(1)
ExitFileNotFound ==
    /\ pc' = "exited"
    /\ exit_code' = 1
    /\ UNCHANGED <<callVars, i, j, results, total_retries, safe_prompt,
                   out_path, outcome, wrapVars, obsVars>>

\* the file at path is read
FileLoaded(path, next) ==
    /\ reads' = Append(reads, path)
    /\ pc' = next
    /\ UNCHANGED <<callVars, i, j, results, total_retries, safe_prompt,
                   out_path, outcome, exit_code, wrapVars, calls, oplog, raised, sent,
                   sleeps, files, sanitized, origin, total_calls,
                   total_sleeps>>

\* if style_path: style_text = load_style(style_path)
LoadStyle ==
    /\ pc = "load_style"
    /\ IF style_path = None
       THEN /\ pc' = "load_refs"
            /\ UNCHANGED <<callVars, i, j, results, total_retries,
                           safe_prompt, out_path, outcome, exit_code,
                           wrapVars, obsVars>>
       ELSE \E exists \in BOOLEAN :
                IF exists THEN FileLoaded(style_path, "load_refs")
                ELSE ExitFileNotFound

\* for ref_path in ref_paths: ref_parts.append(load_image(ref_path))
LoadRefs ==
    /\ pc = "load_refs"
    /\ IF j < Len(ref_paths)
       THEN \E exists \in BOOLEAN :
                IF exists
                THEN /\ reads' = Append(reads, ref_paths[j + 1])
                     /\ j' = j + 1
                     /\ UNCHANGED <<callVars, pc, i, results, total_retries,
                                    safe_prompt, out_path, outcome, exit_code,
                                    wrapVars, calls, oplog, raised, sent, sleeps, files,
                                    sanitized, origin, total_calls,
                                    total_sleeps>>
                ELSE ExitFileNotFound
       ELSE /\ pc' = "load_edit"
            /\ UNCHANGED <<callVars, i, j, results, total_retries,
                           safe_prompt, out_path, outcome, exit_code,
                           wrapVars, obsVars>>

\* if edit_path: edit_part = load_image(edit_path)
LoadEdit ==
    /\ pc = "load_edit"
    /\ IF edit_path = None
       THEN /\ pc' = "loop"
            /\ UNCHANGED <<callVars, i, j, results, total_retries,
                           safe_prompt, out_path, outcome, exit_code,
                           wrapVars, obsVars>>
       ELSE \E exists \in BOOLEAN :
                IF exists THEN FileLoaded(edit_path, "loop")
                ELSE ExitFileNotFound

\* variant: a rejected prompt is skipped without recording an outcome
RejectPromptDropped ==
    /\ pc = "loop"
    /\ i < Len(prompts)
    /\ SanitizeRaises(prompts[i + 1])
    /\ sanitized' = sanitized + 1
    /\ i' = i + 1
    /\ UNCHANGED <<callVars, pc, j, results, total_retries, safe_prompt,
                   out_path, outcome, exit_code, wrapVars, calls, oplog, raised, sent,
                   sleeps, files, reads, origin, total_calls, total_sleeps>>

\* the next prompt is rejected by sanitize_prompt: the invalid-input result
\* is appended and the loop continues
RejectPrompt ==
    /\ pc = "loop"
    /\ i < Len(prompts)
    /\ SanitizeRaises(prompts[i + 1])
    /\ sanitized' = sanitized + 1
    /\ results' = Append(results, InvalidInputResult(prompts[i + 1]))
    /\ origin' = Append(origin, i)
    /\ i' = i + 1
    /\ UNCHANGED <<callVars, pc, j, total_retries, safe_prompt, out_path,
                   outcome, exit_code, wrapVars, calls, oplog, raised, sent, sleeps, files,
                   reads, total_calls, total_sleeps>>

\* the next prompt is sanitized, its output filename is derived and
\* generate_with_retry() is called
StartItem ==
    /\ pc = "loop"
    /\ i < Len(prompts)
    /\ ~SanitizeRaises(prompts[i + 1])
    /\ sanitized' = sanitized + 1
    /\ safe_prompt' = sanitize_prompt(prompts[i + 1])
    /\ out_path' = OutPath(i, Len(prompts))
    /\ EnterWrapper(WrapperBudget(max_retries))
    /\ pc' = "attempting"
    /\ UNCHANGED <<callVars, i, j, results, total_retries, outcome,
                   exit_code, files, reads, origin, total_calls,
                   total_sleeps, sent>>

\* the wrapper's frame is gone once its result has been taken
WrapperLeft ==
    /\ budget' = 0
    /\ attempt' = 0
    /\ retries_used' = 0
    /\ last_error' = NoError
    /\ delay' = 0
    /\ w_result' = NoResult
    /\ calls' = 0
    /\ oplog' = <<>>
    /\ sleeps' = <<>>
    /\ raised' = {}

\* variant: the batch total is overwritten, not accumulated
RecordResultOverwrites ==
    /\ pc = "w_returned"
    /\ total_retries' = (IF "retries_used" \in DOMAIN w_result
                         THEN w_result.retries_used ELSE 0)
    /\ results' = Append(results, w_result)
    /\ origin' = Append(origin, i)
    /\ i' = i + 1
    /\ pc' = "loop"
    /\ WrapperLeft
    /\ UNCHANGED <<callVars, j, safe_prompt, out_path, outcome, exit_code,
                   files, reads, sanitized, total_calls, total_sleeps, sent>>

\* generate_with_retry() has returned: its retries are added to the batch
\* total and the result is appended
RecordResult ==
    /\ pc = "w_returned"
    /\ total_retries' = total_retries
            + (IF "retries_used" \in DOMAIN w_result
               THEN w_result.retries_used ELSE 0)
    /\ results' = Append(results, w_result)
    /\ origin' = Append(origin, i)
    /\ i' = i + 1
    /\ pc' = "loop"
    /\ WrapperLeft
    /\ UNCHANGED <<callVars, j, safe_prompt, out_path, outcome, exit_code,
                   files, reads, sanitized, total_calls, total_sleeps, sent>>

\* variant: the loop is left as soon as an item has failed
ReturnBatchOnFailure ==
    /\ pc = "loop"
    /\ \/ i = Len(prompts)
       \/ Len(results) > 0 /\ ~results[Len(results)].success
    /\ outcome' = BatchOutcome(prompts, results, total_retries)
    /\ pc' = "returned"
    /\ UNCHANGED <<callVars, i, j, results, total_retries, safe_prompt,
                   out_path, exit_code, wrapVars, obsVars>>

\* the loop is over: the counts are computed and the BatchOutcome returned
ReturnBatch ==
    /\ pc = "loop"
    /\ i = Len(prompts)
    /\ outcome' = BatchOutcome(prompts, results, total_retries)
    /\ pc' = "returned"
    /\ UNCHANGED <<callVars, i, j, results, total_retries, safe_prompt,
                   out_path, exit_code, wrapVars, obsVars>>

----------------------------------------------------------------------------
(* main *)

\* the choices= test of --aspect
InChoices(a) == \E k \in 1..Len(ASPECT_RATIOS) : ASPECT_RATIOS[k] = a

\* parser.parse_args(): no prompt (nargs="+") or an --aspect outside the
\* choices ends the process with status 2; otherwise generate_image is called
ParseArgs ==
    /\ pc = "main"
    /\ IF Len(prompts) = 0 \/ ~InChoices(aspect_ratio)
       THEN /\ pc' = "exited"
            /\ exit_code' = 2
       ELSE /\ pc' = "start"
            /\ exit_code' = exit_code
    /\ UNCHANGED <<callVars, i, j, results, total_retries, safe_prompt,
                   out_path, outcome, wrapVars, obsVars>>

\* variant: the status is 0 as soon as one item succeeded
ExitStatusAnySuccess(result) ==
    IF result.error_code = ErrorCode.API_KEY_MISSING THEN 2
    ELSE IF result.success \/ result.succeeded > 0 THEN 0 ELSE 1

\* the exit status main() gives for the result of generate_image
ExitStatus(result) ==
    IF result.error_code = ErrorCode.API_KEY_MISSING THEN 2
    ELSE IF result.success THEN 0 ELSE 1

\* generate_image has returned to main(): the summary is printed and the
\* process exits
MainExit ==
    /\ pc = "returned"
    /\ via_main
    /\ exit_code' = ExitStatus(outcome)
    /\ pc' = "exited"
    /\ UNCHANGED <<callVars, i, j, results, total_retries, safe_prompt,
                   out_path, outcome, wrapVars, obsVars>>

Next ==
    \/ ParseArgs
    \/ MainExit
    \/ CredentialMissing
    \/ CredentialPresent
    \/ LoadStyle
    \/ LoadRefs
    \/ LoadEdit
    \/ RejectPrompt
    \/ StartItem
    \/ FuncSucceeds
    \/ FuncNoImage
    \/ RaiseNonRetryable
    \/ RaiseRetryable
    \/ RaiseExhausted
    \/ BackoffElapsed
    \/ RecordResult
    \/ ReturnBatch

Spec == Init /\ [][Next]_vars

\* the program runs on: the interpreter executes the next statement, and a
\* remote call or a time.sleep(delay) that has begun comes back
SpecFair == Init /\ [][Next]_vars /\ WF_vars(Next)

----------------------------------------------------------------------------
(* The retry executor on its own: retry_with_backoff(func, max_retries = N)  *)
(* for every budget N, func being a call that returns or raises.             *)

InitRetry ==
    /\ api_key = TRUE
    /\ prompts = << <<"a">> >>
    /\ max_retries \in 0..MaxBudget
    /\ style_path = None
    /\ ref_paths = <<>>
    /\ edit_path = None
    /\ aspect_ratio = "1:1"
    /\ via_main = FALSE
    /\ pc = "attempting"
    /\ i = 0
    /\ j = 0
    /\ results = <<>>
    /\ total_retries = 0
    /\ safe_prompt = <<"a">>
    /\ out_path = OutPath(0, 1)
    /\ outcome = NoResult
    /\ exit_code = -1
    /\ budget = max_retries
    /\ attempt = 0
    /\ retries_used = 0
    /\ last_error = NoError
    /\ delay = 0
    /\ w_result = NoResult
    /\ NothingObserved

NextRetry == WrapperNext

SpecRetry == InitRetry /\ [][NextRetry]_vars

\* the retry executor with budgets around the first attempt index whose
\* backoff delay cannot be computed
LongBudgets == FloatMaxExp..(FloatMaxExp + 1)

InitRetryLong ==
    /\ api_key = TRUE
    /\ prompts = << <<"a">> >>
    /\ max_retries \in LongBudgets
    /\ style_path = None
    /\ ref_paths = <<>>
    /\ edit_path = None
    /\ aspect_ratio = "1:1"
    /\ via_main = FALSE
    /\ pc = "attempting"
    /\ i = 0
    /\ j = 0
    /\ results = <<>>
    /\ total_retries = 0
    /\ safe_prompt = <<"a">>
    /\ out_path = OutPath(0, 1)
    /\ outcome = NoResult
    /\ exit_code = -1
    /\ budget = max_retries
    /\ attempt = 0
    /\ retries_used = 0
    /\ last_error = NoError
    /\ delay = 0
    /\ w_result = NoResult
    /\ NothingObserved

NextRetryLong ==
    \/ WrapperNext
    \/ RaiseBackoffOverflow

SpecRetryLong == InitRetryLong /\ [][NextRetryLong]_vars

----------------------------------------------------------------------------
(* calculate_backoff on its own, for attempt indices 0..MaxAttempt and those *)
(* around 1024                                                               *)

AttemptInputs == 0..MaxAttempt \cup (FloatMaxExp - 2)..(FloatMaxExp + 2)

InitBackoff ==
    /\ api_key = TRUE
    /\ prompts = <<>>
    /\ max_retries = DEFAULT_MAX_RETRIES
    /\ style_path = None
    /\ ref_paths = <<>>
    /\ edit_path = None
    /\ aspect_ratio = "1:1"
    /\ via_main = FALSE
    /\ pc = "backoff"
    /\ i = 0
    /\ j = 0
    /\ results = <<>>
    /\ total_retries = 0
    /\ safe_prompt = <<>>
    /\ out_path = NoPath
    /\ outcome = NoResult
    /\ exit_code = -1
    /\ budget = 0
    /\ attempt \in AttemptInputs
    /\ retries_used = 0
    /\ last_error = NoError
    /\ delay = 0
    /\ w_result = NoResult
    /\ NothingObserved

\* calculate_backoff(attempt) returns
BackoffReturns ==
    /\ pc = "backoff"
    /\ ~BackoffRaises(attempt)
    /\ delay' = calculate_backoff(attempt)
    /\ pc' = "backoff_returned"
    /\ UNCHANGED <<callVars, i, j, results, total_retries, safe_prompt,
                   out_path, outcome, exit_code, budget, attempt,
                   retries_used, last_error, w_result, obsVars>>

\* calculate_backoff(attempt) raises OverflowError
BackoffOverflows ==
    /\ pc = "backoff"
    /\ BackoffRaises(attempt)
    /\ pc' = "backoff_raised"
    /\ UNCHANGED <<callVars, i, j, results, total_retries, safe_prompt,
                   out_path, outcome, exit_code, wrapVars, obsVars>>

NextBackoff ==
    \/ BackoffReturns
    \/ BackoffOverflows

SpecBackoff == InitBackoff /\ [][NextBackoff]_vars

----------------------------------------------------------------------------
(* The derivation of the output paths: batches of up to MaxBatch prompts,   *)
(* all plain but at most one empty, whose remote calls return at once with  *)
(* or without an image; the shared inputs are loaded.                       *)

\* n plain prompts, the one at position blank (if any) replaced by ""
PromptsWithBlank(n, blank) ==
    [k \in 1..n |-> IF k = blank THEN <<>> ELSE <<"a">>]

InitPaths ==
    /\ api_key = TRUE
    /\ \E n \in 1..MaxBatch : \E blank \in 0..n :
           prompts = PromptsWithBlank(n, blank)
    /\ max_retries = DEFAULT_MAX_RETRIES
    /\ style_path = None
    /\ ref_paths = <<>>
    /\ edit_path = None
    /\ aspect_ratio = "1:1"
    /\ via_main = FALSE
    /\ pc = "loop"
    /\ i = 0
    /\ j = 0
    /\ results = <<>>
    /\ total_retries = 0
    /\ safe_prompt = <<>>
    /\ out_path = NoPath
    /\ outcome = NoResult
    /\ exit_code = -1
    /\ WrapperIdle
    /\ NothingObserved

NextPaths ==
    \/ RejectPrompt
    \/ StartItem
    \/ FuncSucceeds
    \/ FuncNoImage
    \/ RecordResult
    \/ ReturnBatch

SpecPaths == InitPaths /\ [][NextPaths]_vars

----------------------------------------------------------------------------
(* Properties of the retry executor *)

AllRetryable(log) == \A k \in 1..Len(log) : log[k] = "retryable"

\* C1: with budget N, the wrapper whose operation fails with a retryable
\* error on every invocation ends by returning a failed outcome after exactly
\* N+1 invocations, with retries_used = N; whatever the operation does, it
\* is invoked at most N+1 times.
C1_AlwaysRetryableExhausts ==
    /\ calls <= budget + 1
    /\ (pc \in {"w_returned", "w_raised"} /\ AllRetryable(oplog)) =>
        /\ pc = "w_returned"
        /\ calls = budget + 1
        /\ ~w_result.success
        /\ w_result.retries_used = budget

\* C2: every outcome the wrapper returns (success, no image, non-retryable
\* failure, exhaustion) reports retries_used = invocations made - 1.
C2_RetriesAreAttemptsMinusOne ==
    pc = "w_returned" => w_result.retries_used = calls - 1

C2_Witness ==
    /\ pc = "w_returned"
    /\ w_result.success
    /\ calls = 3
    /\ w_result.retries_used = 2

\* C3: an invocation that fails with a non-retryable message is the last
\* invocation of the item: the wrapper has returned kind API_ERROR with that
\* message, no wait follows it (the waits are those of the earlier attempts),
\* and if it was the first invocation then retries_used = 0.
C3_NonRetryableIsTerminal ==
    \A k \in 1..Len(oplog) :
        oplog[k] = "nonretryable" =>
            /\ k = Len(oplog)
            /\ pc = "w_returned"
            /\ ~w_result.success
            /\ w_result.error_code = ErrorCode.API_ERROR
            /\ w_result.error = last_error
            /\ ~is_retryable_error(last_error)
            /\ Len(sleeps) = k - 1
            /\ w_result.retries_used = k - 1
            /\ (k = 1 => (calls = 1 /\ w_result.retries_used = 0))

C3_Witness ==
    /\ pc = "w_returned"
    /\ oplog = <<"nonretryable">>
    /\ budget >= 2
    /\ w_result.error_code = ErrorCode.API_ERROR
    /\ w_result.retries_used = 0

----------------------------------------------------------------------------
(* Properties of the batch orchestrator *)

\* C4: generate_image called with max_retries = N attempts an item whose
\* remote call always fails with a retryable error exactly N+1 times and the
\* item ends with retries_used = N.
C4_ConfiguredBudgetApplied ==
    (pc = "w_returned" /\ AllRetryable(oplog)) =>
        /\ calls = max_retries + 1
        /\ w_result.retries_used = max_retries

\* C5: every BatchOutcome returned, with or without the credential, has
\* succeeded + failed = total = number of prompts.
C5_CountsAddUp ==
    pc = "returned" =>
        /\ outcome.succeeded + outcome.failed = outcome.total
        /\ outcome.total = Len(prompts)

C5_Witness ==
    /\ pc = "returned"
    /\ api_key
    /\ outcome.succeeded >= 1
    /\ outcome.failed >= 1
    /\ \E k \in 1..Len(results) :
           results[k].error_code = ErrorCode.INVALID_INPUT

\* C6: every BatchOutcome returned, for every prompt list (the empty one
\* included) and with or without the credential, has success true exactly
\* when failed = 0.
C6_SuccessIffNoFailure ==
    pc = "returned" => (outcome.success <=> outcome.failed = 0)

\* C7: a batch that passed the credential check and the loading of the shared
\* inputs has kind PARTIAL_FAILURE exactly when some item failed (also when
\* all failed) and kind SUCCESS exactly when every item succeeded.
C7_PartialFailureOnAnyItemFailure ==
    (pc = "returned" /\ api_key) =>
        /\ (\E k \in 1..Len(results) : ~results[k].success)
              => outcome.error_code = ErrorCode.PARTIAL_FAILURE
        /\ (\A k \in 1..Len(results) : results[k].success)
              => outcome.error_code = ErrorCode.SUCCESS
        /\ outcome.error_code = ErrorCode.SUCCESS
              => (\A k \in 1..Len(outcome.results) :
                      outcome.results[k].success)

C7_Witness ==
    /\ pc = "returned"
    /\ api_key
    /\ Len(prompts) >= 2
    /\ \A k \in 1..Len(results) : ~results[k].success
    /\ \E k \in 1..Len(results) :
           results[k].error_code = ErrorCode.NETWORK_ERROR
    /\ outcome.error_code = ErrorCode.PARTIAL_FAILURE

\* the item outcome at position k is one that processing prompt k produces
OutcomeOfPrompt(r, prompt) ==
    IF prompt = <<>> \/ IsBlank(prompt)
    THEN r = InvalidInputResult(prompt)
    ELSE /\ "retries_used" \in DOMAIN r
         /\ r.error_code # ErrorCode.INVALID_INPUT
         /\ "prompt" \in DOMAIN r => r.prompt = sanitize_prompt(prompt)

\* C8: the results of a batch that passed the credential check and the
\* loading hold exactly one item outcome per prompt, and the outcome at
\* position k was produced by the prompt at position k.
C8_OneOutcomePerPromptInOrder ==
    (pc = "returned" /\ api_key) =>
        /\ Len(outcome.results) = Len(prompts)
        /\ Len(origin) = Len(prompts)
        /\ \A k \in 1..Len(outcome.results) :
              /\ origin[k] = k - 1
              /\ OutcomeOfPrompt(outcome.results[k], prompts[k])

C8_Witness ==
    /\ pc = "returned"
    /\ api_key
    /\ Len(prompts) = 2
    /\ outcome.results[1].error_code = ErrorCode.RATE_LIMITED
    /\ outcome.results[2].error_code = ErrorCode.INVALID_INPUT

\* the step that takes a blank prompt off the list
BlankPromptStep ==
    /\ pc = "loop"
    /\ i < Len(prompts)
    /\ (prompts[i + 1] = <<>> \/ IsBlank(prompts[i + 1]))

\* C9: a prompt that is empty or all whitespace gives an INVALID_INPUT item
\* outcome in one step that makes no remote call, no wait and no file write
\* and adds nothing to the retry total, and the loop goes on to the next
\* prompt; ["", "valid prompt"] with a succeeding remote call gives total 2,
\* succeeded 1, failed 1, success false.
C9_BlankPromptIsInvalidInput ==
    /\ [][BlankPromptStep =>
            /\ results' = Append(results, [prompt |-> prompts[i + 1],
                            error |-> <<"Prompt cannot be empty">>,
                            success |-> FALSE,
                            error_code |-> ErrorCode.INVALID_INPUT])
            /\ total_calls' = total_calls
            /\ total_sleeps' = total_sleeps
            /\ files' = files
            /\ total_retries' = total_retries
            /\ i' = i + 1
            /\ pc' = "loop"]_vars
    /\ []((/\ pc = "returned"
           /\ api_key
           /\ prompts = << <<>>, <<"a">> >>
           /\ outcome.results[2].success) =>
              /\ outcome.results[1].error_code = ErrorCode.INVALID_INPUT
              /\ outcome.total = 2
              /\ outcome.succeeded = 1
              /\ outcome.failed = 1
              /\ outcome.success = FALSE)

C9_Witness ==
    /\ pc = "returned"
    /\ api_key
    /\ prompts = << <<" ">>, <<"a">> >>
    /\ outcome.results[1].error_code = ErrorCode.INVALID_INPUT
    /\ outcome.results[2].success
    /\ total_calls = 1

\* C10: without the credential generate_image returns API_KEY_MISSING with
\* no results, total = number of prompts, succeeded = 0, failed = total, and
\* nothing else has happened: no shared file read, no exit for a missing
\* file, no prompt sanitized, no remote call, no file written.
C10_MissingCredentialFirst ==
    ~api_key =>
        /\ pc \in {"main", "start", "returned", "exited"}
        /\ pc = "exited" => exit_code = 2
        /\ pc # "exited" => exit_code = -1
        /\ reads = <<>>
        /\ sanitized = 0
        /\ total_calls = 0
        /\ files = {}
        /\ "error_code" \in DOMAIN outcome =>
              /\ outcome.error_code = ErrorCode.API_KEY_MISSING
              /\ outcome.results = <<>>
              /\ outcome.total = Len(prompts)
              /\ outcome.succeeded = 0
              /\ outcome.failed = outcome.total

C10_Witness ==
    /\ ~api_key
    /\ pc = "returned"
    /\ style_path # None
    /\ edit_path # None
    /\ Len(prompts) = 1
    /\ outcome.failed = 1

\* C11: with the credential present, a style, reference or edit file that
\* does not exist makes the batch fail with kind FILE_NOT_FOUND, before any
\* prompt is processed and before any remote call.
C11_FileNotFoundKind ==
    (api_key /\ pc = "exited" /\ exit_code = 1 /\ sanitized = 0) =>
        /\ "error_code" \in DOMAIN outcome
        /\ outcome.error_code = ErrorCode.FILE_NOT_FOUND
        /\ total_calls = 0

DigitValue(c) == CHOOSE d \in 0..9 : DigitChars[d + 1] = c

\* p is the given path for a batch of one, and <stem>_<k as 3 digits><ext>
\* for a longer batch
IsPathOfPosition(p, k, n) ==
    IF n = 1
    THEN p = <<"out", ".png">>
    ELSE /\ Len(p) = 6
         /\ p[1] = "out"
         /\ p[2] = "_"
         /\ p[6] = ".png"
         /\ \A x \in 3..5 : \E d \in 0..9 : DigitChars[d + 1] = p[x]
         /\ 100 * DigitValue(p[3]) + 10 * DigitValue(p[4])
               + DigitValue(p[5]) = k

\* C12: a batch of one prompt writes to the given path; in a longer batch the
\* item at 1-based position k is given <stem>_<k, 3 digits><ext> (_001, _002,
\* _003 for three valid prompts), and no two items get the same path.
C12_OutputPathsFollowInputOrder ==
    /\ pc \in {"attempting", "w_returned"} =>
          IsPathOfPosition(out_path, i + 1, Len(prompts))
    /\ \A k \in 1..Len(results) :
          results[k].success =>
              IsPathOfPosition(results[k].output, k, Len(prompts))
    /\ \A k1, k2 \in 1..Len(results) :
          (k1 # k2 /\ results[k1].success /\ results[k2].success) =>
              results[k1].output # results[k2].output
    /\ (pc = "returned" /\ Len(prompts) = 3
            /\ \A k \in 1..3 : results[k].success) =>
          /\ results[1].output = <<"out", "_", "0", "0", "1", ".png">>
          /\ results[2].output = <<"out", "_", "0", "0", "2", ".png">>
          /\ results[3].output = <<"out", "_", "0", "0", "3", ".png">>

C12_Witness ==
    /\ pc = "returned"
    /\ Len(prompts) = 3
    /\ \A k \in 1..3 : outcome.results[k].success
    /\ outcome.results[3].output = <<"out", "_", "0", "0", "3", ".png">>

\* C13: every failed item outcome of a returned batch carries the original
\* prompt of its item, an error kind and an error message.
C13_FailedOutcomeCarriesPrompt ==
    (pc = "returned" /\ api_key) =>
        \A k \in 1..Len(outcome.results) :
            ~outcome.results[k].success =>
                /\ "error_code" \in DOMAIN outcome.results[k]
                /\ "error" \in DOMAIN outcome.results[k]
                /\ "prompt" \in DOMAIN outcome.results[k]
                /\ outcome.results[k].prompt = prompts[k]

\* C14: no remote request carries an aspect ratio outside ASPECT_RATIOS.
C14_AspectRatioValidated ==
    \A a \in sent : \E k \in 1..Len(ASPECT_RATIOS) : ASPECT_RATIOS[k] = a

\* C15: the process started from the command line exits with status 0
\* exactly when every prompt produced a successful item outcome; an item
\* failure gives status 1, and a missing shared file or a missing credential
\* a non-zero status.
C15_ExitStatusReflectsOutcome ==
    (via_main /\ pc = "exited") =>
        /\ exit_code = 0 <=>
              /\ "results" \in DOMAIN outcome
              /\ Len(outcome.results) = Len(prompts)
              /\ \A k \in 1..Len(outcome.results) : outcome.results[k].success
        /\ (\E k \in 1..Len(results) : ~results[k].success) => exit_code = 1
        /\ ~api_key => exit_code # 0
        /\ "results" \notin DOMAIN outcome => exit_code # 0

C15_Witness ==
    /\ via_main
    /\ pc = "exited"
    /\ exit_code = 1
    /\ "succeeded" \in DOMAIN outcome
    /\ outcome.succeeded = 1
    /\ outcome.failed = 1

\* C16: for every attempt index a >= 0, calculate_backoff(a) is
\* min(1 * 2^a, 60): 2^a up to a = 5 and 60 from a = 6 on; it never exceeds
\* 60 and never decreases as a grows.
C16_BackoffIsCappedExponential ==
    pc \in {"backoff_returned", "backoff_raised"} =>
        /\ pc = "backoff_returned"
        /\ delay = (IF attempt <= 5 THEN 2 ^ attempt ELSE 60)
        /\ delay <= 60
        /\ \A b \in 0..attempt :
              ~BackoffRaises(b) /\ calculate_backoff(b) <= delay

\* min(1 * 2^k, 60), written out
ExpectedDelay(k) == IF k <= 5 THEN 2 ^ k ELSE 60

\* C17: within one item every wait follows a retryable failure that left
\* budget and precedes the next invocation; the wait after the failure of the
\* attempt with zero-based index k lasts min(2^k, 60); the number of waits is
\* retries_used; no wait follows the invocation that ended the item.
C17_WaitsBetweenAttempts ==
    /\ Len(sleeps) = retries_used
    /\ Len(sleeps) <= Len(oplog)
    /\ \A k \in 1..Len(sleeps) :
          /\ sleeps[k] = ExpectedDelay(k - 1)
          /\ oplog[k] = "retryable"
          /\ k - 1 < budget
    /\ pc = "retry-scheduled" =>
          /\ oplog[Len(oplog)] = "retryable"
          /\ attempt < budget
          /\ delay = ExpectedDelay(attempt)
          /\ Len(sleeps) = Len(oplog) - 1
    /\ pc = "attempting" => Len(sleeps) = Len(oplog)
    /\ pc \in {"w_returned", "w_raised"} => Len(sleeps) = Len(oplog) - 1
    /\ pc = "w_returned" => w_result.retries_used = Len(sleeps)

C17_Witness ==
    /\ pc = "w_returned"
    /\ w_result.success
    /\ Len(sleeps) = 8
    /\ sleeps[6] = 32
    /\ sleeps[7] = 60
    /\ sleeps[8] = 60

\* "rate" occurs in the lower-cased message
MentionsRate(m) ==
    \E k \in 1..(Len(m) - 3) :
        /\ LowerChar(m[k]) = "r"
        /\ LowerChar(m[k + 1]) = "a"
        /\ LowerChar(m[k + 2]) = "t"
        /\ LowerChar(m[k + 3]) = "e"

\* C18: when the budget is exhausted the kind is RATE_LIMITED if the message
\* of the final attempt mentions "rate" and NETWORK_ERROR otherwise, whatever
\* the earlier attempts raised, and the outcome's error text ends with that
\* final message.
C18_ExhaustionKindFromFinalMessage ==
    (pc = "w_returned" /\ oplog[Len(oplog)] = "retryable") =>
        /\ ~w_result.success
        /\ w_result.error_code =
              (IF MentionsRate(last_error) THEN ErrorCode.RATE_LIMITED
               ELSE ErrorCode.NETWORK_ERROR)
        /\ last_error = MsgRateLimit
              => w_result.error_code = ErrorCode.RATE_LIMITED
        /\ last_error = Msg429
              => w_result.error_code = ErrorCode.NETWORK_ERROR
        /\ Len(w_result.error) > Len(last_error)
        /\ SubSeq(w_result.error,
                  Len(w_result.error) - Len(last_error) + 1,
                  Len(w_result.error)) = last_error
        /\ w_result.retries_used = budget

C18_Witness ==
    /\ pc = "w_returned"
    /\ oplog[Len(oplog)] = "retryable"
    /\ raised = {Msg429, MsgRateLimit}
    /\ last_error = Msg429
    /\ w_result.error_code = ErrorCode.NETWORK_ERROR

RECURSIVE SumRetries(_)
\* the retries consumed by the items of rs, an item without a retry count
\* counting 0
SumRetries(rs) ==
    IF rs = <<>> THEN 0
    ELSE (IF "retries_used" \in DOMAIN Head(rs)
          THEN Head(rs).retries_used ELSE 0) + SumRetries(Tail(rs))

\* C19: the retries_used of a returned BatchOutcome is the sum of the retries
\* consumed by its items (0 for items the sanitizer rejected) and the number
\* of backoff waits made during the batch.
C19_BatchRetriesAreSumOfItems ==
    "retries_used" \in DOMAIN outcome =>
        /\ outcome.retries_used = SumRetries(outcome.results)
        /\ outcome.retries_used = total_sleeps

C19_Witness ==
    /\ pc = "returned"
    /\ api_key
    /\ Len(prompts) = 2
    /\ "retries_used" \in DOMAIN outcome.results[1]
    /\ outcome.results[1].retries_used = 3
    /\ "retries_used" \in DOMAIN outcome.results[2]
    /\ outcome.results[2].retries_used = 1
    /\ outcome.retries_used = 4

\* the output paths of the items that have succeeded so far
SucceededPaths ==
    {results[k].output : k \in {x \in 1..Len(results) : results[x].success}}
    \cup (IF pc = "w_returned" /\ w_result.success
          THEN {w_result.output} ELSE {})

\* C20: at every point of a batch the files written are exactly the output
\* paths of the items that have succeeded; a step writes a file only when an
\* invocation returns an image, to a path not written before, and every
\* other step (a failing invocation included) leaves the files as they are.
C20_FilesAreThoseOfSucceededItems ==
    /\ [](files = SucceededPaths)
    /\ [][IF total_calls' # total_calls /\ oplog'[Len(oplog')] = "image"
          THEN out_path \notin files /\ files' = files \cup {out_path}
          ELSE files' = files]_vars

C20_Witness ==
    /\ pc = "returned"
    /\ api_key
    /\ Len(prompts) = 2
    /\ outcome.results[1].success
    /\ outcome.results[2].error_code = ErrorCode.NETWORK_ERROR
    /\ files = { <<"out", "_", "0", "0", "1", ".png">> }

\* an item is taken from the prompts: sanitize_prompt is called on it
ItemTaken == sanitized' = sanitized + 1

\* C21: a batch that has passed the credential check and the loading of the
\* shared inputs terminates, and only with one outcome for every prompt. An
\* item is taken only from the loop, when every earlier item has its outcome
\* recorded; and once the loop is reached the batch returns, whatever the
\* outcomes of its items.
C21_BatchRunsToCompletion ==
    /\ [][ItemTaken => (pc = "loop" /\ sanitized = i
                         /\ Len(results) = i)]_vars
    /\ []((pc = "returned" /\ api_key) =>
              (i = Len(prompts) /\ Len(outcome.results) = Len(prompts)))
    /\ (pc = "loop") ~> (pc = "returned")

\* a batch of two has returned: its first item failed after exhausting the
\* retries and its second item was still processed, and succeeded
C21_Witness ==
    /\ pc = "returned"
    /\ api_key
    /\ Len(prompts) = 2
    /\ Len(outcome.results) = 2
    /\ ~outcome.results[1].success
    /\ outcome.results[1].error_code = ErrorCode.RATE_LIMITED
    /\ outcome.results[2].success
    /\ total_calls = DEFAULT_MAX_RETRIES + 2

\* the position in the log of an invocation that came back without an image
NoImageAt(log) == {k \in 1..Len(log) : log[k] = "noimage"}

\* C22: a response that comes back without an image ends the wrapper at
\* once. It is the last invocation of the wrapper (no later invocation and no
\* backoff wait follow it, whatever budget remains), and the wrapper returns
\* the failed result of kind API_ERROR with the message "No image in
\* response" and the retries consumed before it.
C22_NoImageIsTerminalUnretried ==
    \A k \in NoImageAt(oplog) :
        /\ k = Len(oplog)
        /\ calls = k
        /\ pc = "w_returned"
        /\ Len(sleeps) = k - 1
        /\ retries_used = k - 1
        /\ "success" \in DOMAIN w_result
        /\ ~w_result.success
        /\ w_result.error_code = ErrorCode.API_ERROR
        /\ w_result.error = <<"No image in response">>
        /\ w_result.retries_used = k - 1

\* a response without an image arrives after one retry, with budget left
C22_Witness ==
    /\ pc = "w_returned"
    /\ oplog = <<"retryable", "noimage">>
    /\ budget >= 3
    /\ sleeps = <<1>>
    /\ w_result.retries_used = 1

====
